---------------------------- MODULE Spec2Model ----------------------------
(* A model of PomodoroTimer (src/pomodoro.py): the session sequence, the   *)
(* countdown state, the Tk command handlers and the background thread that *)
(* runs run_timer.  A command handler runs on the Tk main loop and is one  *)
(* action; the timer thread is interleaved with the handlers line by line, *)
(* one action per source line of run_timer that reads or writes the shared *)
(* fields (there is no lock in the source); the augmented assignments of   *)
(* lines 128 and 138 are a read and a write, which a handler can separate. *)
(* Every counterexample found at this grain is also one at the grain of    *)
(* single bytecodes.                                                       *)
EXTENDS Integers, Sequences, FiniteSets, TLC

(***************************************************************************)
(* Bounds of the model and constants of the program.                       *)
(***************************************************************************)
MaxSessions == 3
MaxWorkMinutes == 1
MaxBreakMinutes == 1
NumThreads == 2
MaxNotes == 6
SecondsPerMinute == 60
BackwardThreshold == 5

Counts == 0..MaxSessions
WorkMinutes == 1..MaxWorkMinutes
BreakMinutes == 0..MaxBreakMinutes
Threads == 1..NumThreads

VARIABLES
    session_sequence,       \* list of <<duration_in_seconds, "work"/"break">>
    num_work_sessions,      \* the IntVar behind the "Number of Work Sessions" entry
    current_session_index,  \* 0-based index into session_sequence
    is_paused,
    time_remaining,
    timer_thread,           \* 0 for None, else the Thread object last started
    button_state,           \* state of pause_button: "normal" / "disabled"
    pc,                     \* per Thread object: line of run_timer it is at, or "dead"
    current_session_type,   \* per Thread object: the local of its innermost run_timer frame
    loaded,                 \* per Thread object: the value read by a -= or += in progress, else 0
    fired,                  \* what the latest step showed: popups, error boxes, exceptions
    notes                   \* popups shown so far (kept by the recording specifications)

vars == <<session_sequence, num_work_sessions, current_session_index, is_paused,
          time_remaining, timer_thread, button_state, pc, current_session_type,
          loaded, fired, notes>>

engine == <<session_sequence, num_work_sessions, current_session_index, is_paused,
            time_remaining, timer_thread, button_state>>

(***************************************************************************)
(* Reading the sequence with Python's 0-based indices.                     *)
(***************************************************************************)
InRange(i) == i >= 0 /\ i < Len(session_sequence)
Duration(i) == session_sequence[i + 1][1]
Kind(i) == session_sequence[i + 1][2]

\* lines 86-87 without the test for the last work session
RECURSIVE BuildSequenceTrailingBreak(_, _, _, _)
BuildSequenceTrailingBreak(i, total, work_secs, break_secs) ==
    IF i >= total THEN <<>>
    ELSE <<<<work_secs, "work">>, <<break_secs, "break">>>>
         \o BuildSequenceTrailingBreak(i + 1, total, work_secs, break_secs)

RECURSIVE BuildSequence(_, _, _, _)
BuildSequence(i, total, work_secs, break_secs) ==
    IF i >= total THEN <<>>
    ELSE <<<<work_secs, "work">>>>
         \o (IF i < total - 1 THEN <<<<break_secs, "break">>>> ELSE <<>>)
         \o BuildSequence(i + 1, total, work_secs, break_secs)

\* The state __init__ leaves, with the entry for the number of work sessions
\* already edited to a value within the bounds (its default is 4 sessions of
\* 25 minutes); the minutes entries are read by setup_pomodoro only and are
\* its inputs.
Init ==
    /\ session_sequence = <<>>
    /\ num_work_sessions \in Counts
    /\ current_session_index = 0
    /\ is_paused = TRUE
    /\ time_remaining = 0
    /\ timer_thread = 0
    /\ button_state = "disabled"
    /\ pc = [t \in Threads |-> "dead"]
    /\ current_session_type = [t \in Threads |-> "none"]
    /\ loaded = [t \in Threads |-> 0]
    /\ fired = <<>>
    /\ notes = <<>>

(***************************************************************************)
(* Command handlers.                                                       *)
(***************************************************************************)
setup_pomodoro(work_minutes, break_minutes) ==
    LET work_secs == work_minutes * SecondsPerMinute
        break_secs == break_minutes * SecondsPerMinute
        built == BuildSequence(0, num_work_sessions, work_secs, break_secs)
    IN /\ is_paused' = TRUE
       /\ button_state' = "normal"
       /\ session_sequence' = built
       /\ current_session_index' = 0
       /\ IF built = <<>>
          THEN /\ fired' = <<"IndexError">>
               /\ UNCHANGED time_remaining
          ELSE /\ fired' = <<>>
               /\ time_remaining' = built[1][1]
       /\ UNCHANGED <<num_work_sessions, timer_thread, pc, current_session_type, loaded>>

edit_num_work_sessions(n) ==
    /\ n # num_work_sessions
    /\ num_work_sessions' = n
    /\ fired' = <<>>
    /\ UNCHANGED <<session_sequence, current_session_index, is_paused, time_remaining,
                   timer_thread, button_state, pc, current_session_type, loaded>>

ThreadAlive(t) == t # 0 /\ pc[t] # "dead"
\* toggle_pause without the liveness test of line 104
NeedsThreadUnchecked == TRUE
NeedsThread == ~ThreadAlive(timer_thread)
FreshThread == CHOOSE t \in Threads : pc[t] = "dead" /\ \A u \in 1..(t - 1) : pc[u] # "dead"

\* line 96 without the test
NotSetUpUnchecked == FALSE
NotSetUp == session_sequence = <<>>

toggle_pause ==
    /\ IF NotSetUp
       THEN /\ fired' = <<"showerror">>
            /\ UNCHANGED <<is_paused, timer_thread, pc>>
       ELSE /\ fired' = <<>>
            /\ IF is_paused
               THEN /\ is_paused' = FALSE
                    /\ IF NeedsThread /\ (\E t \in Threads : pc[t] = "dead")
                       THEN /\ timer_thread' = FreshThread
                            /\ pc' = [pc EXCEPT ![FreshThread] = "117"]
                       ELSE UNCHANGED <<timer_thread, pc>>
               ELSE /\ is_paused' = TRUE
                    /\ UNCHANGED <<timer_thread, pc>>
    /\ UNCHANGED <<session_sequence, num_work_sessions, current_session_index,
                   time_remaining, button_state, current_session_type, loaded>>

\* a click on pause_button: Tk calls the command of an enabled button only
PauseButton == button_state = "normal" /\ toggle_pause

forward ==
    /\ time_remaining' = 0
    /\ fired' = <<>>
    /\ UNCHANGED <<session_sequence, num_work_sessions, current_session_index, is_paused,
                   timer_thread, button_state, pc, current_session_type, loaded>>

\* line 167 with >= for >
ElapsedOverInclusive(elapsed) == elapsed >= BackwardThreshold
ElapsedOver(elapsed) == elapsed > BackwardThreshold

backward ==
    /\ IF ~InRange(current_session_index)
       THEN /\ fired' = <<"IndexError">>
            /\ UNCHANGED <<current_session_index, time_remaining>>
       ELSE LET current_duration == Duration(current_session_index)
                elapsed == current_duration - time_remaining
            IN /\ fired' = <<>>
               /\ IF ElapsedOver(elapsed)
                  THEN /\ time_remaining' = current_duration
                       /\ UNCHANGED current_session_index
                  ELSE IF current_session_index > 0
                       THEN /\ current_session_index' = current_session_index - 1
                            /\ time_remaining' = Duration(current_session_index - 1)
                       ELSE UNCHANGED <<current_session_index, time_remaining>>
    /\ UNCHANGED <<session_sequence, num_work_sessions, is_paused, timer_thread,
                   button_state, pc, current_session_type, loaded>>

reset_current_timer ==
    /\ IF ~InRange(current_session_index)
       THEN /\ fired' = <<"IndexError">>
            /\ UNCHANGED time_remaining
       ELSE /\ fired' = <<>>
            /\ time_remaining' = Duration(current_session_index)
    /\ UNCHANGED <<session_sequence, num_work_sessions, current_session_index, is_paused,
                   timer_thread, button_state, pc, current_session_type, loaded>>

(***************************************************************************)
(* Notifications.  A popup is recorded by its kind: "start" for            *)
(* "Work Session Started!", "end" for "Work Session Ended!", "final" for   *)
(* "Final Work Session Completed!".                                        *)
(***************************************************************************)
notify_session_start == <<"start">>

WorkSessionCount(upto) ==
    Cardinality({idx \in 0..upto : Kind(idx) = "work"})

\* line 200 comparing against the sessions still to come, off by one
IsFinalOffByOne(work_session_count, total_work_sessions) ==
    work_session_count + 1 = total_work_sessions
IsFinal(work_session_count, total_work_sessions) ==
    work_session_count = total_work_sessions

notify_session_end ==
    IF ~InRange(current_session_index)
    THEN <<"IndexError">>
    ELSE IF IsFinal(WorkSessionCount(current_session_index), num_work_sessions)
         THEN <<"final">>
         ELSE <<"end">>

(***************************************************************************)
(* run_timer, one action per line that touches the shared fields.  The     *)
(* recursive call of line 143 is the last statement of its frame, so the   *)
(* innermost frame's local is the only one read again.  An exception that  *)
(* escapes run_timer ends the thread.                                      *)
(***************************************************************************)
Goto(t, line) == pc' = [pc EXCEPT ![t] = line]
Raise(t) ==
    /\ fired' = <<"IndexError">>
    /\ Goto(t, "dead")

AtStart == time_remaining = Duration(current_session_index)
LoopTest == ~is_paused /\ time_remaining > 0
StillRunning == ~is_paused
BoundaryTest == time_remaining = 0 /\ ~is_paused
\* line 139 with <= for <
HasNextOffByOne == current_session_index <= Len(session_sequence)
HasNext == current_session_index < Len(session_sequence)

rt117(t) ==
    /\ pc[t] = "117"
    /\ IF InRange(current_session_index)
       THEN /\ current_session_type' =
                  [current_session_type EXCEPT ![t] = Kind(current_session_index)]
            /\ fired' = <<>>
            /\ Goto(t, "121")
       ELSE /\ Raise(t)
            /\ UNCHANGED current_session_type
    /\ UNCHANGED <<engine, loaded>>

rt121(t) ==
    /\ pc[t] = "121"
    /\ IF InRange(current_session_index)
       THEN /\ fired' = IF AtStart /\ current_session_type[t] = "work"
                        THEN notify_session_start ELSE <<>>
            /\ Goto(t, "125")
       ELSE Raise(t)
    /\ UNCHANGED <<engine, current_session_type, loaded>>

\* line 125, and line 126 when the test holds: at "127" the thread is asleep
rt125(t) ==
    /\ pc[t] = "125"
    /\ Goto(t, IF LoopTest THEN "127" ELSE "132")
    /\ fired' = <<>>
    /\ UNCHANGED <<engine, current_session_type, loaded>>

rt127(t) ==
    /\ pc[t] = "127"
    /\ Goto(t, IF StillRunning THEN "128" ELSE "125")
    /\ fired' = <<>>
    /\ UNCHANGED <<engine, current_session_type, loaded>>

\* line 128, the read of self.time_remaining
rt128(t) ==
    /\ pc[t] = "128"
    /\ loaded' = [loaded EXCEPT ![t] = time_remaining]
    /\ Goto(t, "128w")
    /\ fired' = <<>>
    /\ UNCHANGED <<engine, current_session_type>>

\* line 128, the write of self.time_remaining (and the label of line 129)
rt128w(t) ==
    /\ pc[t] = "128w"
    /\ time_remaining' = loaded[t] - 1
    /\ loaded' = [loaded EXCEPT ![t] = 0]
    /\ Goto(t, "125")
    /\ fired' = <<>>
    /\ UNCHANGED <<session_sequence, num_work_sessions, current_session_index, is_paused,
                   timer_thread, button_state, current_session_type>>

rt132(t) ==
    /\ pc[t] = "132"
    /\ Goto(t, IF BoundaryTest THEN "134" ELSE "dead")
    /\ fired' = <<>>
    /\ UNCHANGED <<engine, current_session_type, loaded>>

rt134(t) ==
    /\ pc[t] = "134"
    /\ IF current_session_type[t] = "work"
       THEN /\ fired' = notify_session_end
            /\ Goto(t, IF notify_session_end = <<"IndexError">> THEN "dead" ELSE "138")
       ELSE /\ fired' = <<>>
            /\ Goto(t, "138")
    /\ UNCHANGED <<engine, current_session_type, loaded>>

\* line 138, the read of self.current_session_index
rt138(t) ==
    /\ pc[t] = "138"
    /\ loaded' = [loaded EXCEPT ![t] = current_session_index]
    /\ Goto(t, "138w")
    /\ fired' = <<>>
    /\ UNCHANGED <<engine, current_session_type>>

\* line 138, the write of self.current_session_index
rt138w(t) ==
    /\ pc[t] = "138w"
    /\ current_session_index' = loaded[t] + 1
    /\ loaded' = [loaded EXCEPT ![t] = 0]
    /\ Goto(t, "139")
    /\ fired' = <<>>
    /\ UNCHANGED <<session_sequence, num_work_sessions, is_paused, time_remaining,
                   timer_thread, button_state, current_session_type>>

rt139(t) ==
    /\ pc[t] = "139"
    /\ Goto(t, IF HasNext THEN "140" ELSE "146")
    /\ fired' = <<>>
    /\ UNCHANGED <<engine, current_session_type, loaded>>

\* lines 140-143: load the next session and recurse into run_timer
rt140(t) ==
    /\ pc[t] = "140"
    /\ IF InRange(current_session_index)
       THEN /\ time_remaining' = Duration(current_session_index)
            /\ fired' = <<>>
            /\ Goto(t, "117")
       ELSE /\ Raise(t)
            /\ UNCHANGED time_remaining
    /\ UNCHANGED <<session_sequence, num_work_sessions, current_session_index, is_paused,
                   timer_thread, button_state, current_session_type, loaded>>

rt146(t) ==
    /\ pc[t] = "146"
    /\ is_paused' = TRUE
    /\ Goto(t, "147")
    /\ fired' = <<>>
    /\ UNCHANGED <<session_sequence, num_work_sessions, current_session_index,
                   time_remaining, timer_thread, button_state, current_session_type, loaded>>

rt147(t) ==
    /\ pc[t] = "147"
    /\ button_state' = "disabled"
    /\ Goto(t, "dead")
    /\ fired' = <<>>
    /\ UNCHANGED <<session_sequence, num_work_sessions, current_session_index, is_paused,
                   time_remaining, timer_thread, current_session_type, loaded>>

run_timer(t) ==
    \/ rt117(t) \/ rt121(t) \/ rt125(t) \/ rt127(t) \/ rt128(t) \/ rt128w(t)
    \/ rt132(t) \/ rt134(t) \/ rt138(t) \/ rt138w(t) \/ rt139(t) \/ rt140(t)
    \/ rt146(t) \/ rt147(t)

(***************************************************************************)
(* The program: every command at any time, interleaved with the thread.    *)
(***************************************************************************)
Setup == \E w \in WorkMinutes, b \in BreakMinutes : setup_pomodoro(w, b)
Edit == \E n \in Counts : edit_num_work_sessions(n)
Driver == \E t \in Threads : run_timer(t)

Next ==
    \/ Setup /\ UNCHANGED notes
    \/ Edit /\ UNCHANGED notes
    \/ PauseButton /\ UNCHANGED notes
    \/ forward /\ UNCHANGED notes
    \/ backward /\ UNCHANGED notes
    \/ reset_current_timer /\ UNCHANGED notes
    \/ Driver /\ UNCHANGED notes

Spec == Init /\ [][Next]_vars

(***************************************************************************)
(* Recording specifications: notes keeps every popup shown.                *)
(***************************************************************************)
IsPopup(m) == m \in {"start", "end", "final"}
IsEnd(m) == m \in {"end", "final"}
Record == notes' = notes \o SelectSeq(fired', IsPopup)

NeverConfigured == session_sequence = <<>> /\ button_state = "disabled"
NeverStarted == timer_thread = 0
NoThreadAlive == \A t \in Threads : pc[t] = "dead"
Configured == session_sequence # <<>>
Completed ==
    /\ Configured
    /\ is_paused
    /\ button_state = "disabled"
    /\ current_session_index = Len(session_sequence)
    /\ NoThreadAlive

FirstSetup == NeverConfigured /\ Setup
FirstStart == NeverStarted /\ PauseButton

\* One configure, one toggleRun, then the thread alone.  The thread is a
\* daemon thread of the operating system: it is scheduled, and sleep returns.
RunDriver == Driver /\ Record
RunNext ==
    \/ FirstSetup /\ Record
    \/ FirstStart /\ Record
    \/ RunDriver
RunSpec == Init /\ [][RunNext]_vars /\ WF_vars(RunDriver)

\* As RunSpec, with skipForward at any time.
SkipNext ==
    \/ FirstSetup /\ Record
    \/ FirstStart /\ Record
    \/ forward /\ Record
    \/ Driver /\ Record
SkipSpec == Init /\ [][SkipNext]_vars

\* configure at any time; toggleRun only to start or resume.
ResumeOnly == is_paused /\ PauseButton
ReconfNext ==
    \/ Setup /\ UNCHANGED notes
    \/ ResumeOnly /\ UNCHANGED notes
    \/ Driver /\ UNCHANGED notes
ReconfSpec == Init /\ [][ReconfNext]_vars

\* One configure, toggleRun at any time.
PauseNext ==
    \/ FirstSetup /\ UNCHANGED notes
    \/ PauseButton /\ UNCHANGED notes
    \/ Driver /\ UNCHANGED notes
PauseSpec == Init /\ [][PauseNext]_vars

(***************************************************************************)
(* What a run without commands is expected to show.                        *)
(***************************************************************************)
RECURSIVE ExpectedNotes(_, _)
ExpectedNotes(k, n) ==
    IF k > n THEN <<>>
    ELSE <<"start", IF k < n THEN "end" ELSE "final">> \o ExpectedNotes(k + 1, n)

IsPrefix(s, r) == Len(s) <= Len(r) /\ SubSeq(r, 1, Len(s)) = s
DriverStep == pc' # pc
EndFired == fired \in {<<"end">>, <<"final">>}

(***************************************************************************)
(* C1 (SkipSpec).  With skipForward as the only command after the start,   *)
(* every session boundary is processed as in a natural countdown: when the *)
(* thread has ended, the engine is Completed and the end notifications     *)
(* shown are those of the natural run, one per Work session, the last one  *)
(* Final.                                                                  *)
(***************************************************************************)
C1_SkipForwardSameBoundary ==
    (~NeverStarted /\ NoThreadAlive) =>
        /\ Completed
        /\ SelectSeq(notes, IsEnd)
             = SelectSeq(ExpectedNotes(1, num_work_sessions), IsEnd)

(***************************************************************************)
(* C2 (Spec).  While a session is current, time_remaining lies between 0   *)
(* and the full duration of that session.                                  *)
(***************************************************************************)
C2_RemainingInRange ==
    (Configured /\ InRange(current_session_index)) =>
        /\ time_remaining >= 0
        /\ time_remaining <= Duration(current_session_index)

(***************************************************************************)
(* C3 (Spec).  When the thread passes the end-of-session notification      *)
(* point (line 134) with time_remaining at 0 and the engine running, an    *)
(* end notification is shown if and only if the session that is current    *)
(* is a Work session.                                                      *)
(***************************************************************************)
C3_EndNotificationIffWork ==
    [][\A t \in Threads :
          (pc[t] = "134" /\ pc'[t] # "134" /\ time_remaining = 0 /\ ~is_paused) =>
              ((fired' \in {<<"end">>, <<"final">>})
                  <=> (InRange(current_session_index)
                         /\ Kind(current_session_index) = "work"))]_vars

(***************************************************************************)
(* C4 (RunSpec).  After configure and one toggleRun, the popups shown are  *)
(* always a prefix of start, end, start, end, ..., start, final (one pair  *)
(* per Work session, nothing for a Break), and once the thread is started  *)
(* the run reaches Completed with exactly that sequence shown.             *)
(***************************************************************************)
C4_NaturalRunNotifications ==
    /\ [](IsPrefix(notes, ExpectedNotes(1, num_work_sessions)))
    /\ [](~NeverStarted =>
            <>(Completed /\ notes = ExpectedNotes(1, num_work_sessions)))

C4_Witness ==
    /\ Completed
    /\ num_work_sessions >= 2
    /\ notes = ExpectedNotes(1, num_work_sessions)
    /\ Len(notes) = 2 * num_work_sessions

(***************************************************************************)
(* C5 (ReconfSpec).  Once configure has left the engine paused at index 0  *)
(* with the full duration of the first session remaining, no step of the   *)
(* thread changes current_session_index or time_remaining.                 *)
(***************************************************************************)
FreshReady ==
    /\ Configured
    /\ is_paused
    /\ button_state = "normal"
    /\ current_session_index = 0
    /\ time_remaining = Duration(0)

C5_ConfigureStopsDriver ==
    [][(FreshReady /\ DriverStep) =>
          (current_session_index' = 0 /\ time_remaining' = time_remaining)]_vars

(***************************************************************************)
(* C6 (PauseSpec).  While is_paused holds, no step of the thread changes   *)
(* time_remaining or current_session_index.                                *)
(***************************************************************************)
C6_PausedDriverInert ==
    [][(is_paused /\ DriverStep) =>
          UNCHANGED <<time_remaining, current_session_index>>]_vars

(***************************************************************************)
(* C7 (Spec).  At most one thread running run_timer is alive, and a live   *)
(* one is the thread timer_thread refers to.                               *)
(***************************************************************************)
C7_AtMostOneDriver ==
    /\ Cardinality({t \in Threads : pc[t] # "dead"}) <= 1
    /\ \A t \in Threads : pc[t] # "dead" => timer_thread = t

\* toggle_pause has resumed a run whose thread was still alive: the thread
\* had left its loop on a pause and finds the engine running at line 132
C7_Witness ==
    \E t \in Threads :
        /\ pc[t] = "132"
        /\ timer_thread = t
        /\ ~is_paused
        /\ time_remaining > 0

(***************************************************************************)
(* C8 (Spec).  While a sequence is configured, current_session_index is a  *)
(* valid index of it.                                                      *)
(***************************************************************************)
C8_IndexInRange ==
    Configured => InRange(current_session_index)

(***************************************************************************)
(* C9 (Spec).  An end notification is Final exactly when the number of     *)
(* Work sessions at or before current_session_index equals the number of   *)
(* Work sessions of the sequence built by the latest configure.            *)
(***************************************************************************)
C9_FinalIffLastWork ==
    (EndFired /\ InRange(current_session_index)) =>
        ((fired = <<"final">>)
            <=> (WorkSessionCount(current_session_index)
                   = WorkSessionCount(Len(session_sequence) - 1)))

(***************************************************************************)
(* C10 (RunSpec).  When time_remaining has counted down to 0 on the last   *)
(* session while running, the engine reaches Completed (paused, run        *)
(* control disabled, thread ended) and stays there.                        *)
(***************************************************************************)
LastExpired ==
    /\ Configured
    /\ ~is_paused
    /\ current_session_index = Len(session_sequence) - 1
    /\ time_remaining = 0

C10_LastSessionCompletes ==
    [](LastExpired => <>[]Completed)

C10_Witness ==
    /\ LastExpired
    /\ \E t \in Threads : pc[t] = "125"
    /\ Len(session_sequence) > 1

(***************************************************************************)
(* C11 (Spec).  backward on a configured engine with a current session:    *)
(* with more than 5 seconds elapsed it restores the session's full         *)
(* duration and keeps the index; otherwise it moves to the previous        *)
(* session at its full duration, or changes nothing at index 0.  It never  *)
(* changes is_paused and shows no popup.                                   *)
(***************************************************************************)
C11_BackwardCases ==
    [][(Configured /\ InRange(current_session_index) /\ backward) =>
          LET elapsed == Duration(current_session_index) - time_remaining
          IN /\ (elapsed > 5) =>
                   /\ time_remaining' = Duration(current_session_index)
                   /\ current_session_index' = current_session_index
             /\ (elapsed <= 5 /\ current_session_index > 0) =>
                   /\ current_session_index' = current_session_index - 1
                   /\ time_remaining' = Duration(current_session_index - 1)
             /\ (elapsed <= 5 /\ current_session_index = 0) =>
                   UNCHANGED <<current_session_index, time_remaining>>
             /\ is_paused' = is_paused
             /\ UNCHANGED <<session_sequence, button_state, pc>>
             /\ SelectSeq(fired', IsPopup) = <<>>]_vars

\* backward has moved a running engine from Work session 2 into the Break
\* before it: the thread is still in the loop of the frame it entered for the
\* Work session
C11_Witness ==
    \E t \in Threads :
        /\ pc[t] \in {"125", "127", "128"}
        /\ current_session_type[t] = "work"
        /\ ~is_paused
        /\ current_session_index = 1
        /\ InRange(1)
        /\ time_remaining = Duration(1)

(***************************************************************************)
(* C12 (Spec).  forward, backward and reset_current_timer called before    *)
(* any sequence was built each show the configuration-required error and   *)
(* change no field of the timer.                                           *)
(***************************************************************************)
C12_NavigationRejectedUnconfigured ==
    [][(NeverConfigured /\ (forward \/ backward \/ reset_current_timer)) =>
          (fired' = <<"showerror">> /\ UNCHANGED <<engine, pc>>)]_vars

(***************************************************************************)
(* The handlers called as methods of PomodoroTimer, whatever the state of  *)
(* pause_button: the button starts disabled (line 59), so a click cannot   *)
(* reach toggle_pause before setup_pomodoro has run.                       *)
(***************************************************************************)
ApiNext ==
    \/ Setup /\ UNCHANGED notes
    \/ Edit /\ UNCHANGED notes
    \/ toggle_pause /\ UNCHANGED notes
    \/ forward /\ UNCHANGED notes
    \/ backward /\ UNCHANGED notes
    \/ reset_current_timer /\ UNCHANGED notes
    \/ Driver /\ UNCHANGED notes
ApiSpec == Init /\ [][ApiNext]_vars

(***************************************************************************)
(* C13 (ApiSpec).  toggle_pause called before any setup_pomodoro shows the *)
(* error box, starts no thread and leaves every field as constructed, with *)
(* is_paused true.                                                         *)
(***************************************************************************)
C13_ToggleBeforeConfigure ==
    [][(NeverConfigured /\ toggle_pause) =>
          /\ fired' = <<"showerror">>
          /\ UNCHANGED <<engine, pc>>
          /\ is_paused'
          /\ NeverConfigured']_vars

C13_Witness ==
    /\ NeverConfigured
    /\ NeverStarted
    /\ NoThreadAlive
    /\ is_paused
    /\ fired = <<"showerror">>

(***************************************************************************)
(* C14 (Spec).  setup_pomodoro with n >= 1 work sessions, w work minutes   *)
(* and b break minutes builds a sequence of length 2n-1 holding a Work     *)
(* session of w*60 seconds at every even index and a Break of b*60         *)
(* seconds at every odd index.                                             *)
(***************************************************************************)
C14_SequenceShape ==
    [][\A w \in WorkMinutes, b \in BreakMinutes :
          (num_work_sessions >= 1 /\ setup_pomodoro(w, b)) =>
              /\ Len(session_sequence') = 2 * num_work_sessions - 1
              /\ \A i \in 0..(Len(session_sequence') - 1) :
                    session_sequence'[i + 1] =
                        IF i % 2 = 0 THEN <<w * 60, "work">> ELSE <<b * 60, "break">>
              /\ session_sequence'[Len(session_sequence')][2] = "work"]_vars

C14_Witness ==
    /\ FreshReady
    /\ num_work_sessions = 3
    /\ Len(session_sequence) = 5
    /\ Kind(1) = "break" /\ Kind(4) = "work"

\* One configure, one toggleRun, then reset_current_timer at any time.
ResetNext ==
    \/ FirstSetup /\ UNCHANGED notes
    \/ FirstStart /\ UNCHANGED notes
    \/ reset_current_timer /\ UNCHANGED notes
    \/ Driver /\ UNCHANGED notes
ResetSpec == Init /\ [][ResetNext]_vars

(***************************************************************************)
(* C15 (ResetSpec).  reset_current_timer on an engine with a current       *)
(* session stores the session's full duration, keeps the index and         *)
(* is_paused and shows no popup; and a tick of the thread takes exactly    *)
(* one second off the value it finds, so that a reset is never undone by   *)
(* more than the one tick.                                                 *)
(***************************************************************************)
C15_ResetKeptAcrossTick ==
    [][/\ (Configured /\ InRange(current_session_index) /\ reset_current_timer) =>
             /\ time_remaining' = Duration(current_session_index)
             /\ UNCHANGED <<current_session_index, is_paused>>
             /\ SelectSeq(fired', IsPopup) = <<>>
       /\ \A t \in Threads :
             (pc[t] = "128w" /\ pc'[t] = "125") =>
                 time_remaining' = time_remaining - 1]_vars

(***************************************************************************)
(* C16 (Spec).  setup_pomodoro with 0 work sessions leaves an empty        *)
(* sequence, and from then on a click on the run control or on a           *)
(* navigation button shows an error, changes no field and starts no        *)
(* thread.                                                                 *)
(***************************************************************************)
EmptyAfterSetup == session_sequence = <<>> /\ button_state = "normal"

C16_ZeroSessionsRejected ==
    [][/\ (num_work_sessions = 0 /\ Setup) => EmptyAfterSetup'
       /\ (EmptyAfterSetup
             /\ (PauseButton \/ forward \/ backward \/ reset_current_timer)) =>
             (fired' = <<"showerror">> /\ UNCHANGED <<engine, pc>>)]_vars

(***************************************************************************)
(* C17 (PauseSpec).  Whenever the engine is running (not paused, run       *)
(* control enabled) a thread executing run_timer is alive.                 *)
(***************************************************************************)
C17_RunningHasDriver ==
    (Configured /\ ~is_paused /\ button_state = "normal") => ~NoThreadAlive

\* One configure, toggleRun at any time; the first MaxNotes popups are kept.
RecordCapped ==
    notes' = IF Len(notes) < MaxNotes
             THEN notes \o SelectSeq(fired', IsPopup)
             ELSE notes
ResumeNext ==
    \/ FirstSetup /\ RecordCapped
    \/ PauseButton /\ RecordCapped
    \/ Driver /\ RecordCapped
ResumeSpec == Init /\ [][ResumeNext]_vars

(***************************************************************************)
(* C18 (ResumeSpec).  A start notification is shown only while a Work      *)
(* session is current, and at most once for each Work session entered:     *)
(* pausing and resuming within a session shows no further one.             *)
(***************************************************************************)
IsStart(m) == m = "start"
SessionsEntered ==
    IF InRange(current_session_index)
    THEN current_session_index
    ELSE Len(session_sequence) - 1

C18_StartOncePerWorkSession ==
    Configured =>
        /\ (fired = <<"start">>) =>
              (InRange(current_session_index) /\ Kind(current_session_index) = "work")
        /\ Len(SelectSeq(notes, IsStart)) <= WorkSessionCount(SessionsEntered)

\* As SkipSpec, with the thread scheduled: it is a thread of the operating
\* system, and sleep returns.
SkipFairSpec == SkipSpec /\ WF_vars(Driver /\ Record)

(***************************************************************************)
(* C19 (SkipFairSpec).  Whenever the engine is running, with forward the   *)
(* only command issued after the start and the thread scheduled fairly,    *)
(* the engine eventually is Completed.                                     *)
(***************************************************************************)
C19_RunningReachesCompleted ==
    []((Configured /\ ~is_paused) => <>Completed)

(***************************************************************************)
(* C20 (Spec).  In Completed, every step other than setup_pomodoro leaves  *)
(* current_session_index, time_remaining and is_paused as they are and     *)
(* shows no popup; setup_pomodoro with at least one work session leaves    *)
(* the engine paused at the start of session 0 with the run control        *)
(* enabled.                                                                *)
(***************************************************************************)
C20_CompletedAbsorbing ==
    [][/\ (Completed /\ ~Setup) =>
             /\ UNCHANGED <<current_session_index, time_remaining, is_paused>>
             /\ SelectSeq(fired', IsPopup) = <<>>
             /\ Completed'
       /\ (Completed /\ Setup /\ num_work_sessions >= 1) => FreshReady']_vars

============================================================================
